---- MODULE Spec2Model ----
(***************************************************************************)
(* A model of the NG12 referral assistant: the chat flow and its session   *)
(* store (app/agents/chat_agent.py), the patient store                     *)
(* (app/tools/patient_db.py), the memoised assessment flow                 *)
(* (app/agents/ng12_agent.py) and the GET /assess endpoint (app/main.py).  *)
(*                                                                         *)
(* The retrieval service and the hosted model are the environment: every   *)
(* call draws its outcome (an exception of some class, or a returned       *)
(* value) from a small set.  Python exceptions are modelled as an outcome  *)
(* record whose status is "raised" and whose exc names the class.          *)
(***************************************************************************)
EXTENDS Integers, Sequences, FiniteSets, TLC

VARIABLES
    sessions,       \* chat_agent.sessions: dict session_id -> list of messages
    chatResult,     \* outcome of the last chat_with_guidelines call
    sessionResult,  \* outcome of the last get_chat_history / clear_chat_history
    file,           \* contents of data/patients.json: a list of records
    cache,          \* lru_cache(maxsize=1) of _load_patient_data
    patientResult,  \* outcome of the last patient store call
    memo,           \* lru_cache(maxsize=32) of assess_patient, oldest first
    assessResult,   \* outcome of the last assess_patient call
    httpResult,     \* status code of the last GET /assess/{id}
    upstreamCalls,  \* retrieval / model invocations made by the last call
    firstResult,    \* history: first result assess_patient returned per ID
    lastReturned,   \* history: latest result assess_patient returned per ID
    othersSince,    \* history: other IDs that returned since an ID last did
    citeIn,         \* raw_citations handed to the citation deduplication
    citeOut,        \* unique_citations it produced
    docsIn,         \* docs returned by search_guidelines to the chat flow
    contextOut,     \* context_text composed from them, block by block
    calls,          \* chat_with_guidelines calls in flight: position and locals
    workers,        \* patient store calls in flight: position and locals
    counted,        \* history: the IDs that returned add_new_patients calls counted
    lastOp          \* the last call made and its inputs

vars == <<sessions, chatResult, sessionResult, file, cache, patientResult, memo, assessResult,
          httpResult, upstreamCalls, firstResult, lastReturned, othersSince,
          citeIn, citeOut, docsIn, contextOut, calls, workers, counted, lastOp>>

chatVars    == <<sessions, chatResult, sessionResult>>
patientVars == <<file, cache, patientResult>>
assessVars  == <<memo, assessResult, httpResult, upstreamCalls,
                 firstResult, lastReturned, othersSince>>
citeVars    == <<citeIn, citeOut>>
ctxVars     == <<docsIn, contextOut>>
storeVars   == <<workers, counted>>
concVars    == <<calls, storeVars>>

(***************************************************************************)
(* Bounds of the model.                                                    *)
(***************************************************************************)
MaxMsgs == 4        \* messages held by the session store, all sessions
MaxCits == 3        \* length of a citation list the deduplication is given
MaxBatch == 2       \* records in one add_new_patients batch
MaxDocs == 3        \* chunks one retrieval returns
NumSmall == 2       \* patients on file in the assessment scenario
MaxPatients == 34   \* patients on file in the memo scenario

\* @lru_cache(maxsize=32) on assess_patient.
LruMaxSize == 32

(***************************************************************************)
(* Python values.                                                          *)
(***************************************************************************)
\* dict.get(key) of a JSON object: the value, or None when the key is missing.
Some(x) == [some |-> TRUE, v |-> x]
NoPage == [some |-> FALSE, v |-> 0]
NoExcerpt == [some |-> FALSE, v |-> ""]

\* isinstance(exc, ValueError): json.JSONDecodeError subclasses ValueError.
IsValueError(exc) == exc \in {"ValueError", "JSONDecodeError"}

\* Exception classes a failing retrieval or model service raises.
UpstreamErrors == {"ValueError", "ServiceUnavailable"}

NoOp == [op |-> "none"]

(***************************************************************************)
(* Chat flow: app/agents/chat_agent.py                                     *)
(***************************************************************************)
SessionIds == {"s1", "s2"}
Messages == {"m1", "m2"}

FallbackAnswer == "I encountered an error processing your request. Please try again."

\* A citation entry of the model's JSON.  A JSON object carries page and
\* excerpt (None when the key is missing, as dict.get gives) and a chunk_id;
\* an entry that is no object (a string, a number) has isdict FALSE.
Cit(p, e, c) == [isdict |-> TRUE, page |-> p, excerpt |-> e, chunk_id |-> c]
NonDictEntry == [isdict |-> FALSE, page |-> NoPage, excerpt |-> NoExcerpt, chunk_id |-> "-"]

\* The value of the "citations" key: a JSON list, or a value that is not
\* iterable (null, a number).
CitList(items) == [t |-> "list", items |-> items]
CitNull == [t |-> "null", items |-> <<>>]

\* A parsed JSON value: an object with optional "answer" and "citations"
\* keys, or a non-object (list, string, number).
JsonObj(hasA, a, hasC, c) ==
    [t |-> "obj", has_answer |-> hasA, answer |-> a, has_citations |-> hasC, citations |-> c]
JsonNonObj(t) ==
    [t |-> t, has_answer |-> FALSE, answer |-> "", has_citations |-> FALSE, citations |-> CitNull]

\* The fallback payload of the except clause.
FallbackJson == JsonObj(TRUE, FallbackAnswer, TRUE, CitList(<<>>))

\* response.text: text that parses as JSON to `value`, or text that does not.
Text(wellformed, value) == [wellformed |-> wellformed, value |-> value]
NotJsonText == Text(FALSE, JsonNonObj("null"))

\* json.loads
JsonLoads(text) ==
    IF text.wellformed
    THEN [status |-> "ok", exc |-> "", value |-> text.value]
    ELSE [status |-> "raised", exc |-> "JSONDecodeError", value |-> text.value]

\* Outcomes of model.generate_content followed by response.text:
\* the call raises exc; the response has no parts, so .text raises ValueError;
\* or the response carries text.
ModelRaises(exc) == [kind |-> "raise", exc |-> exc, text |-> NotJsonText]
ModelNoText == [kind |-> "no_text", exc |-> "ValueError", text |-> NotJsonText]
ModelText(text) == [kind |-> "text", exc |-> "", text |-> text]
\* The model is not called when retrieval raised.
ModelNotCalled == [kind |-> "not_called", exc |-> "", text |-> NotJsonText]

\* Outcomes of search_guidelines.
RetrievalOk == [kind |-> "ok", exc |-> ""]
RetrievalRaises(exc) == [kind |-> "raise", exc |-> exc]
RetrievalOutcomes == {RetrievalOk} \cup {RetrievalRaises(e) : e \in UpstreamErrors}

\* Faulty variant of lines 102-115: a failure of the model call is not caught.
GenerateResponseNarrow(mo) ==
    IF mo.kind = "raise" THEN [status |-> "raised", exc |-> mo.exc, json |-> FallbackJson]
    ELSE IF mo.kind = "no_text" \/ ~mo.text.wellformed
    THEN [status |-> "ok", exc |-> "", json |-> FallbackJson]
    ELSE [status |-> "ok", exc |-> "", json |-> mo.text.value]

\* Lines 102-115: try generate_content, .text, json.loads; except Exception
\* gives the fallback payload.
GenerateResponse(mo) ==
    IF mo.kind = "raise" \/ mo.kind = "no_text"
    THEN [status |-> "ok", exc |-> "", json |-> FallbackJson]
    ELSE LET parsed == JsonLoads(mo.text)
         IN  IF parsed.status = "raised"
             THEN [status |-> "ok", exc |-> "", json |-> FallbackJson]
             ELSE [status |-> "ok", exc |-> "", json |-> parsed.value]

\* response_json.get("answer", ""): only a dict has .get.
GetAnswer(json) ==
    IF json.t # "obj" THEN [status |-> "raised", exc |-> "AttributeError", value |-> ""]
    ELSE [status |-> "ok", exc |-> "", value |-> IF json.has_answer THEN json.answer ELSE ""]

\* response_json.get("citations", [])
GetCitations(json) == IF json.has_citations THEN json.citations ELSE CitList(<<>>)

\* Line 127: sig = (cit.get("page"), cit.get("excerpt"))
Sig(cit) == <<cit.page, cit.excerpt>>

\* Faulty variant of the loop: the signature is the page alone.
RECURSIVE DedupByPage(_, _, _)
DedupByPage(raw, unique, seen) ==
    IF raw = <<>> THEN unique
    ELSE IF Head(raw).page \in seen
         THEN DedupByPage(Tail(raw), unique, seen)
         ELSE DedupByPage(Tail(raw), Append(unique, Head(raw)), seen \cup {Head(raw).page})

\* Lines 123-130: the loop over raw_citations, with unique_citations and
\* seen_citations as accumulators.
RECURSIVE DedupLoop(_, _, _)
DedupLoop(raw, unique, seen) ==
    IF raw = <<>> THEN unique
    ELSE IF Sig(Head(raw)) \in seen
         THEN DedupLoop(Tail(raw), unique, seen)
         ELSE DedupLoop(Tail(raw), Append(unique, Head(raw)), seen \cup {Sig(Head(raw))})

\* Lines 121-130 on the value of "citations": iterating a non-list raises
\* TypeError, cit.get on an entry that is no dict raises AttributeError.
DedupCitations(cits) ==
    IF cits.t # "list" THEN [status |-> "raised", exc |-> "TypeError", value |-> <<>>]
    ELSE IF \E i \in 1..Len(cits.items) : ~cits.items[i].isdict
    THEN [status |-> "raised", exc |-> "AttributeError", value |-> <<>>]
    ELSE [status |-> "ok", exc |-> "", value |-> DedupLoop(cits.items, <<>>, {})]

UserMsg(content) == [role |-> "user", content |-> content]
ModelMsg(content) == [role |-> "model", content |-> content]

\* Lines 79-80: create the session entry if absent.
EnsureSession(ss, sid) == IF sid \in DOMAIN ss THEN ss ELSE ss @@ (sid :> <<>>)

\* sessions[session_id].append(msg)
AppendMsg(ss, sid, msg) == [ss EXCEPT ![sid] = Append(@, msg)]

\* Faulty variant of lines 118-119: the assistant message is appended first.
AppendTurnSwapped(ss, sid, user_message, answer) ==
    AppendMsg(AppendMsg(ss, sid, ModelMsg(answer)), sid, UserMsg(user_message))

\* Lines 118-119 when both appends run.
AppendTurn(ss, sid, user_message, answer) ==
    AppendMsg(AppendMsg(ss, sid, UserMsg(user_message)), sid, ModelMsg(answer))

TotalMsgs(ss) ==
    LET RECURSIVE Sum(_)
        Sum(S) == IF S = {} THEN 0
                  ELSE LET s == CHOOSE x \in S : TRUE IN Len(ss[s]) + Sum(S \ {s})
    IN  Sum(DOMAIN ss)

Raised(exc) == [status |-> "raised", exc |-> exc, session_id |-> "", answer |-> "", citations |-> <<>>]
Returned(sid, answer, cits) ==
    [status |-> "ok", exc |-> "", session_id |-> sid, answer |-> answer, citations |-> cits]
NoResult == [status |-> "none", exc |-> "", session_id |-> "", answer |-> "", citations |-> <<>>]

\* chat_with_guidelines(session_id, user_message), lines 46-136, with the
\* outcome `retr` of search_guidelines and `mo` of the model call.
ChatWithGuidelines(session_id, user_message, retr, mo) ==
    /\ TotalMsgs(sessions) + 2 <= MaxMsgs
    /\ lastOp' = [op |-> "chat", session_id |-> session_id, message |-> user_message,
                  retrieval |-> retr,
                  model |-> IF retr.kind = "raise" THEN ModelNotCalled ELSE mo]
    /\ IF retr.kind = "raise"
       THEN \* line 60 is outside the try: the exception propagates
            /\ chatResult' = Raised(retr.exc)
            /\ UNCHANGED sessions
       ELSE LET created == EnsureSession(sessions, session_id)
                gen == GenerateResponse(mo)
                answer == GetAnswer(gen.json)
                cits == DedupCitations(GetCitations(gen.json))
            IN  IF gen.status = "raised"
                THEN /\ chatResult' = Raised(gen.exc)
                     /\ sessions' = created
                ELSE IF answer.status = "raised"
                THEN \* line 119 raises after line 118 has appended
                     /\ chatResult' = Raised(answer.exc)
                     /\ sessions' = AppendMsg(created, session_id, UserMsg(user_message))
                ELSE /\ sessions' = AppendTurn(created, session_id, user_message, answer.value)
                     /\ chatResult' = IF cits.status = "raised"
                                      THEN Raised(cits.exc)
                                      ELSE Returned(session_id, answer.value, cits.value)
    /\ UNCHANGED <<sessionResult, patientVars, assessVars, citeVars, ctxVars, concVars>>

NoHistory == [status |-> "none", history |-> <<>>]

\* Faulty variant of lines 43-44: the history is emptied, the key is kept.
RemoveSessionEmptied(ss, sid) ==
    IF sid \in DOMAIN ss THEN [ss EXCEPT ![sid] = <<>>] ELSE ss

\* Lines 43-44: if session_id in sessions: del sessions[session_id]
RemoveSession(ss, sid) ==
    IF sid \in DOMAIN ss THEN [s \in DOMAIN ss \ {sid} |-> ss[s]] ELSE ss

\* clear_chat_history(session_id), lines 41-44.
ClearChatHistory(session_id) ==
    /\ sessions' = RemoveSession(sessions, session_id)
    /\ sessionResult' = [status |-> "ok", history |-> <<>>]
    /\ lastOp' = [op |-> "clear", session_id |-> session_id,
                  existed |-> session_id \in DOMAIN sessions]
    /\ UNCHANGED <<chatResult, patientVars, assessVars, citeVars, ctxVars, concVars>>

\* Faulty variant of line 39: sessions.setdefault(session_id, []).
HistoryOfSetDefault(ss, sid) ==
    [sessions |-> EnsureSession(ss, sid),
     history |-> IF sid \in DOMAIN ss THEN ss[sid] ELSE <<>>]

\* Line 39: sessions.get(session_id, []), which leaves the dict as it is.
HistoryOf(ss, sid) ==
    [sessions |-> ss, history |-> IF sid \in DOMAIN ss THEN ss[sid] ELSE <<>>]

\* get_chat_history(session_id), lines 37-39.
GetChatHistory(session_id) ==
    LET r == HistoryOf(sessions, session_id)
    IN  /\ sessions' = r.sessions
        /\ sessionResult' = [status |-> "ok", history |-> r.history]
        /\ lastOp' = [op |-> "get", session_id |-> session_id,
                      existed |-> session_id \in DOMAIN sessions]
        /\ UNCHANGED <<chatResult, patientVars, assessVars, citeVars, ctxVars, concVars>>

\* The model outputs the chat scenario draws from.
ChatCitationValues ==
    { CitNull,
      CitList(<<>>),
      CitList(<<Cit(Some(1), Some("e1"), "chunk_1")>>),
      CitList(<<Cit(Some(1), Some("e1"), "chunk_1"), Cit(Some(1), Some("e1"), "chunk_2")>>),
      CitList(<<Cit(Some(1), Some("e1"), "chunk_1"), NonDictEntry>>) }

ChatJsonValues ==
    {JsonNonObj(t) : t \in {"list", "str", "num"}}
    \cup {JsonObj(FALSE, "", FALSE, CitNull), JsonObj(TRUE, "a1", FALSE, CitNull)}
    \cup {JsonObj(TRUE, "a1", TRUE, c) : c \in ChatCitationValues}

ChatModelOutcomes ==
    {ModelRaises(e) : e \in UpstreamErrors}
    \cup {ModelNoText, ModelText(NotJsonText)}
    \cup {ModelText(Text(TRUE, v)) : v \in ChatJsonValues}


(***************************************************************************)
(* Patient store: app/tools/patient_db.py                                  *)
(***************************************************************************)
Names == {"n1", "n2"}

\* A patient record; has_id is whether the dict has the key "patient_id".
Patient(id, name) == [has_id |-> TRUE, patient_id |-> id, name |-> name]
NoIdRecord == [has_id |-> FALSE, patient_id |-> 0, name |-> "n1"]

\* The cache of _load_patient_data: empty, or the dict it returned.  A dict
\* is a sequence of (key, record) entries with unique keys, in insertion order.
NotLoaded == [loaded |-> FALSE, data |-> <<>>]
Loaded(d) == [loaded |-> TRUE, data |-> d]

DictKeys(d) == {d[i].key : i \in 1..Len(d)}
DictGet(d, k) == d[CHOOSE i \in 1..Len(d) : d[i].key = k].value

\* d[k] = v: replaces the value in place when the key exists, else appends.
DictSet(d, k, v) ==
    IF k \in DictKeys(d)
    THEN [i \in 1..Len(d) |-> IF d[i].key = k THEN [key |-> k, value |-> v] ELSE d[i]]
    ELSE Append(d, [key |-> k, value |-> v])

\* Line 12: {p["patient_id"]: p for p in json.load(f)}.  The dict holds each
\* key once, at the place of its first record, with the value of its last.
ReadPatients(records) ==
    LET ids(i) == records[i].patient_id
        first == {i \in 1..Len(records) : \A j \in 1..(i - 1) : ids(j) # ids(i)}
        kth(k) == CHOOSE i \in first : Cardinality({j \in first : j <= i}) = k
        last(id) == CHOOSE i \in 1..Len(records) :
                        /\ ids(i) = id
                        /\ \A j \in (i + 1)..Len(records) : ids(j) # id
    IN  [k \in 1..Cardinality(first) |->
            [key |-> ids(kth(k)), value |-> records[last(ids(kth(k)))]]]

\* _load_patient_data() under lru_cache(maxsize=1): the cached dict, or the
\* file read and cached.
LoadPatientData(c, f) == IF c.loaded THEN c ELSE Loaded(ReadPatients(f))

\* Faulty variant of the loop: the membership test is dropped.
RECURSIVE AddLoopNoCheck(_, _, _, _)
AddLoopNoCheck(new_patients, existing_data, existing_ids, added_count) ==
    IF new_patients = <<>> THEN [data |-> existing_data, count |-> added_count]
    ELSE LET p == Head(new_patients)
         IN  IF p.has_id
             THEN AddLoopNoCheck(Tail(new_patients), Append(existing_data, p),
                                 existing_ids, added_count + 1)
             ELSE AddLoopNoCheck(Tail(new_patients), existing_data, existing_ids, added_count)

\* Lines 34-37: the loop over new_patients; existing_ids is the set built at
\* line 31 and is not updated by the loop.
RECURSIVE AddLoop(_, _, _, _)
AddLoop(new_patients, existing_data, existing_ids, added_count) ==
    IF new_patients = <<>> THEN [data |-> existing_data, count |-> added_count]
    ELSE LET p == Head(new_patients)
         IN  IF p.has_id /\ p.patient_id \notin existing_ids
             THEN AddLoop(Tail(new_patients), Append(existing_data, p),
                          existing_ids, added_count + 1)
             ELSE AddLoop(Tail(new_patients), existing_data, existing_ids, added_count)

\* Line 31: existing_ids = {p["patient_id"] for p in existing_data}
FileIds(f) == {f[i].patient_id : i \in 1..Len(f)}

\* add_new_patients(new_patients), lines 26-44.
AddNewPatients(new_patients) ==
    LET r == AddLoop(new_patients, file, FileIds(file), 0)
    IN  /\ lastOp' = [op |-> "add", batch |-> new_patients]
        /\ IF r.count > 0
           THEN file' = r.data /\ cache' = NotLoaded
           ELSE UNCHANGED <<file, cache>>
        /\ patientResult' = [status |-> "ok", exc |-> "", count |-> r.count]
        /\ UNCHANGED <<chatVars, assessVars, citeVars, ctxVars, concVars>>

\* get_patient_by_id(pid), lines 14-19.
LookupPatient(c, pid) ==
    IF pid \in DictKeys(c.data)
    THEN [status |-> "ok", exc |-> "", patient |-> DictGet(c.data, pid)]
    ELSE [status |-> "raised", exc |-> "ValueError", patient |-> NoIdRecord]

GetPatientById(pid) ==
    LET c == LoadPatientData(cache, file)
    IN  /\ lastOp' = [op |-> "get", patient_id |-> pid]
        /\ cache' = c
        /\ patientResult' = LookupPatient(c, pid)
        /\ UNCHANGED <<file, chatVars, assessVars, citeVars, ctxVars, concVars>>

\* get_all_patient_ids(), lines 21-24.
GetAllPatientIds ==
    LET c == LoadPatientData(cache, file)
    IN  /\ lastOp' = [op |-> "list"]
        /\ cache' = c
        /\ patientResult' = [status |-> "ok", exc |-> "",
                             ids |-> [i \in 1..Len(c.data) |-> c.data[i].key]]
        /\ UNCHANGED <<file, chatVars, assessVars, citeVars, ctxVars, concVars>>

\* The IDs and records the patient scenario submits; the last ID of
\* LookupIds is never added.
NewIds == {1, 2}
LookupIds == {1, 2, 3}
BatchRecords == {Patient(id, n) : id \in NewIds, n \in Names} \cup {NoIdRecord}
SeqsUpTo(S, n) == UNION {[1..k -> S] : k \in 0..n}
Batches == SeqsUpTo(BatchRecords, MaxBatch)


(***************************************************************************)
(* Assessment flow: app/agents/ng12_agent.py and GET /assess in main.py    *)
(***************************************************************************)
\* The "patient_summary" key of the model's JSON: missing, a string, or a
\* value of another type.
NoSummary == [present |-> FALSE, isstr |-> FALSE, v |-> ""]
Summary(isstr, v) == [present |-> TRUE, isstr |-> isstr, v |-> v]

Absent == "<absent>"

\* A parsed JSON value of the assessment flow: an object (its keys Absent
\* when missing) or a number.
Assessment(rec, analysis, steps, text, summary) ==
    [t |-> "obj", recommendation |-> rec, guideline_analysis |-> analysis,
     next_steps |-> steps, assessment |-> text, patient_summary |-> summary]
JsonNumber ==
    [t |-> "num", recommendation |-> Absent, guideline_analysis |-> Absent,
     next_steps |-> Absent, assessment |-> Absent, patient_summary |-> NoSummary]

\* Lines 72-76: the fixed result of the except ValueError clause.
UnableToAssess ==
    Assessment("Unable to assess",
               "The model refused to generate a response due to safety filters.",
               "Please review the patient data manually.", Absent, NoSummary)

\* Line 78: {"assessment": response.text}
RawTextResult(text) == Assessment(Absent, Absent, Absent, text.raw, NoSummary)

\* response.text of the assessment flow: the raw text and what it parses to.
AssessText(raw, wellformed, value) == [raw |-> raw, wellformed |-> wellformed, value |-> value]
NotJsonAssessText == AssessText("not json", FALSE, JsonNumber)

AssessModelRaises(exc) == [kind |-> "raise", exc |-> exc, text |-> NotJsonAssessText]
AssessModelNoText == [kind |-> "no_text", exc |-> "ValueError", text |-> NotJsonAssessText]
AssessModelText(text) == [kind |-> "text", exc |-> "", text |-> text]

AssessRaised(exc) == [status |-> "raised", exc |-> exc, value |-> JsonNumber]
AssessReturned(v) == [status |-> "ok", exc |-> "", value |-> v]

\* Lines 62-69: response.text, json.loads and the patient_summary coercion.
\* `"patient_summary" in data` raises TypeError when data is a number.
TryBody(mo) ==
    IF mo.kind = "no_text" THEN AssessRaised("ValueError")
    ELSE IF ~mo.text.wellformed THEN AssessRaised("JSONDecodeError")
    ELSE LET data == mo.text.value
         IN  IF data.t # "obj" THEN AssessRaised("TypeError")
             ELSE IF data.patient_summary.present /\ ~data.patient_summary.isstr
             THEN AssessReturned([data EXCEPT !.patient_summary.isstr = TRUE])
             ELSE AssessReturned(data)

\* Faulty variant of the handlers: except json.JSONDecodeError is tried first.
ParseAssessmentDecodeFirst(mo) ==
    LET r == TryBody(mo)
    IN  IF r.status = "ok" THEN r
        ELSE IF r.exc = "JSONDecodeError" THEN AssessReturned(RawTextResult(mo.text))
        ELSE IF IsValueError(r.exc) THEN AssessReturned(UnableToAssess)
        ELSE r

\* Lines 61-78: the try block and its handlers, in the order written: except
\* ValueError first, then except json.JSONDecodeError.
ParseAssessment(mo) ==
    LET r == TryBody(mo)
    IN  IF r.status = "ok" THEN r
        ELSE IF IsValueError(r.exc) THEN AssessReturned(UnableToAssess)
        ELSE IF r.exc = "JSONDecodeError" THEN AssessReturned(RawTextResult(mo.text))
        ELSE r

\* Lines 40-78, the body of assess_patient on a cache miss, given the
\* patient store's cached view c.
ComputeAssessment(c, patient_id, retr, mo) ==
    IF LookupPatient(c, patient_id).status = "raised"
    THEN [result |-> AssessRaised("ValueError"), retrieval |-> 0, model |-> 0]
    ELSE IF retr.kind = "raise"
    THEN [result |-> AssessRaised(retr.exc), retrieval |-> 1, model |-> 0]
    ELSE IF mo.kind = "raise"
    THEN [result |-> AssessRaised(mo.exc), retrieval |-> 1, model |-> 1]
    ELSE [result |-> ParseAssessment(mo), retrieval |-> 1, model |-> 1]

\* The memo of lru_cache: (key, value) entries, least recently used first.
MemoKeys(m) == {m[i].key : i \in 1..Len(m)}
MemoIndex(m, k) == CHOOSE i \in 1..Len(m) : m[i].key = k
MemoValue(m, k) == m[MemoIndex(m, k)].value
Without(m, i) == [j \in 1..(Len(m) - 1) |-> IF j < i THEN m[j] ELSE m[j + 1]]

\* Faulty variant of the hit path: the entry keeps its place (first in, first out).
MemoHitNoMove(m, k) == m

\* A hit moves the entry to the most recently used end.
MemoHit(m, k) == Append(Without(m, MemoIndex(m, k)), m[MemoIndex(m, k)])

\* A miss whose call returned stores the result, evicting the least recently
\* used entry when the memo is full.
MemoInsert(m, k, v) ==
    Append(IF Len(m) >= LruMaxSize THEN Tail(m) ELSE m, [key |-> k, value |-> v])

\* except ValueError -> 404, except Exception -> 500, main.py lines 325-330.
StatusOf(r) ==
    IF r.status = "ok" THEN 200
    ELSE IF IsValueError(r.exc) THEN 404
    ELSE 500

\* History of the calls that returned, per patient ID.
Record(h, k, v) == IF k \in DOMAIN h THEN [h EXCEPT ![k] = v] ELSE h @@ (k :> v)
RecordFirst(h, k, v) == IF k \in DOMAIN h THEN h ELSE h @@ (k :> v)
RecordOthers(h, k) ==
    [j \in DOMAIN h \cup {k} |-> IF j = k THEN {} ELSE h[j] \cup {k}]

\* GET /assess/{patient_id}: assess(patient_id) of main.py, lines 322-330,
\* calling assess_patient under lru_cache (ng12_agent.py lines 35-78).
Assess(patient_id, retr, mo) ==
    LET hit == patient_id \in MemoKeys(memo)
        c == LoadPatientData(cache, file)
        computed == ComputeAssessment(c, patient_id, retr, mo)
        r == IF hit THEN AssessReturned(MemoValue(memo, patient_id)) ELSE computed.result
    IN  /\ lastOp' = [op |-> "assess", patient_id |-> patient_id,
                      retrieval |-> retr, model |-> mo]
        /\ assessResult' = r
        /\ httpResult' = StatusOf(r)
        /\ upstreamCalls' = IF hit THEN [retrieval |-> 0, model |-> 0]
                            ELSE [retrieval |-> computed.retrieval, model |-> computed.model]
        /\ memo' = IF hit THEN MemoHit(memo, patient_id)
                   ELSE IF r.status = "ok" THEN MemoInsert(memo, patient_id, r.value)
                   ELSE memo
        /\ cache' = IF hit THEN cache ELSE c
        /\ IF r.status = "ok"
           THEN /\ firstResult' = RecordFirst(firstResult, patient_id, r.value)
                /\ lastReturned' = Record(lastReturned, patient_id, r.value)
                /\ othersSince' = RecordOthers(othersSince, patient_id)
           ELSE UNCHANGED <<firstResult, lastReturned, othersSince>>
        /\ UNCHANGED <<file, patientResult, chatVars, citeVars, ctxVars, concVars>>

\* The model outputs the assessment scenarios draw from.
Urgent == Assessment("Urgent Referral", "criteria met", "Refer via 2WW", Absent,
                     Summary(TRUE, "summary"))
Routine == Assessment("Routine Referral", "criteria not met", "Safety netting", Absent,
                      Summary(FALSE, "7"))
AssessJsonValues == {Urgent, Routine, JsonNumber}
AssessModelOutcomes ==
    {AssessModelRaises(e) : e \in UpstreamErrors}
    \cup {AssessModelNoText, AssessModelText(NotJsonAssessText)}
    \cup {AssessModelText(AssessText("json", TRUE, v)) : v \in AssessJsonValues}

\* The patients on file in the assessment scenarios.
StoredPatients(n) == [i \in 1..n |-> Patient(i, "n1")]
Max(S) == CHOOSE x \in S : \A y \in S : y <= x


\* The citation lists the deduplication scenario draws from: objects whose
\* page may be missing, with two excerpts and two chunk IDs.
CiteEntries ==
    {Cit(p, Some(e), c) : p \in {NoPage, Some(1)}, e \in {"e1", "e2"},
                          c \in {"chunk_1", "chunk_2"}}
CiteLists == SeqsUpTo(CiteEntries, MaxCits)

\* Lines 121-130 of chat_with_guidelines applied to the list citeIn.
DeduplicateCitations ==
    /\ citeOut.status = "none"
    /\ citeOut' = DedupCitations(CitList(citeIn))
    /\ lastOp' = [op |-> "dedup"]
    /\ UNCHANGED <<citeIn, chatVars, patientVars, assessVars, ctxVars, concVars>>


\* A retrieved chunk: its text and the "page" entry of its metadata, which
\* is missing, an integer, or a value of another type.
NoPageMeta == [present |-> FALSE, isint |-> FALSE, n |-> 0, label |-> ""]
IntPage(n) == [present |-> TRUE, isint |-> TRUE, n |-> n, label |-> ""]
LabelPage(l) == [present |-> TRUE, isint |-> FALSE, n |-> 0, label |-> l]
Doc(content, page) == [page_content |-> content, page |-> page]

\* Lines 73-74: page = doc.metadata.get("page", 0), shown 1-indexed when it
\* is an integer and unchanged otherwise.
DisplayPage(doc) ==
    LET page == IF doc.page.present THEN doc.page ELSE IntPage(0)
    IN  IF page.isint THEN IntPage(page.n + 1) ELSE page

\* Faulty variant of lines 63-68: a chunk is dropped only when it repeats the
\* chunk just before it.
RECURSIVE UniqueDocsAdjacent(_, _, _)
UniqueDocsAdjacent(docs, unique_docs, seen_content) ==
    IF docs = <<>> THEN unique_docs
    ELSE IF unique_docs # <<>> /\ unique_docs[Len(unique_docs)].page_content = Head(docs).page_content
         THEN UniqueDocsAdjacent(Tail(docs), unique_docs, seen_content)
         ELSE UniqueDocsAdjacent(Tail(docs), Append(unique_docs, Head(docs)), seen_content)

\* Lines 63-68: the loop over docs with unique_docs and seen_content.
RECURSIVE UniqueDocs(_, _, _)
UniqueDocs(docs, unique_docs, seen_content) ==
    IF docs = <<>> THEN unique_docs
    ELSE IF Head(docs).page_content \in seen_content
         THEN UniqueDocs(Tail(docs), unique_docs, seen_content)
         ELSE UniqueDocs(Tail(docs), Append(unique_docs, Head(docs)),
                         seen_content \cup {Head(docs).page_content})

\* Lines 70-76: context_text, one block "[ID: chunk_<i+1> | Page <p>]" and
\* text per unique doc, i counting from 0 as enumerate does.
ComposeContext(unique_docs) ==
    [k \in 1..Len(unique_docs) |->
        LET i == k - 1
        IN  [chunk_id |-> i + 1,
             display_page |-> DisplayPage(unique_docs[k]),
             content |-> unique_docs[k].page_content]]

\* The chunk sequences the context scenario draws from.
DocEntries ==
    {Doc(t, p) : t \in {"t1", "t2", "t3"}, p \in {NoPageMeta, IntPage(0), LabelPage("iv")}}
DocLists == SeqsUpTo(DocEntries, MaxDocs)

\* Lines 62-76 of chat_with_guidelines applied to the chunks docsIn.
BuildContext ==
    /\ contextOut.status = "none"
    /\ contextOut' = [status |-> "ok", value |-> ComposeContext(UniqueDocs(docsIn, <<>>, {}))]
    /\ lastOp' = [op |-> "context"]
    /\ UNCHANGED <<docsIn, chatVars, patientVars, assessVars, citeVars, concVars>>


(***************************************************************************)
(* Chat calls running concurrently.  FastAPI runs the synchronous          *)
(* endpoints in a thread pool, so calls interleave between the statements  *)
(* that touch chat_agent.sessions; a call's steps are those statements.    *)
(***************************************************************************)
CallIds == {"c1", "c2"}

Idle == [pc |-> "idle", session_id |-> "", message |-> "", json |-> FallbackJson,
         cleared |-> FALSE, result |-> NoResult]

Active(c) == calls[c].pc \notin {"idle", "done"}
Finish(c, result) == [calls EXCEPT ![c].pc = "done", ![c].result = result]
Goto(c, pc) == [calls EXCEPT ![c].pc = pc]

\* Lines 58-79: search_guidelines, the context, and the test
\* `session_id not in sessions`.
CallStart(c, session_id, user_message, retr) ==
    /\ ~Active(c)
    /\ TotalMsgs(sessions) + 2 * (Cardinality({d \in CallIds : Active(d)}) + 1) <= MaxMsgs
    /\ LET begun == [Idle EXCEPT !.session_id = session_id, !.message = user_message]
       IN  calls' = [calls EXCEPT ![c] =
                        IF retr.kind = "raise"
                        THEN [begun EXCEPT !.pc = "done", !.result = Raised(retr.exc)]
                        ELSE IF session_id \in DOMAIN sessions
                        THEN [begun EXCEPT !.pc = "read"]
                        ELSE [begun EXCEPT !.pc = "create"]]
    /\ lastOp' = [op |-> "call", call |-> c]
    /\ UNCHANGED <<chatVars, patientVars, assessVars, citeVars, ctxVars, storeVars>>

\* Line 80: sessions[session_id] = []
CallCreate(c) ==
    /\ calls[c].pc = "create"
    /\ sessions' = IF calls[c].session_id \in DOMAIN sessions
                   THEN [sessions EXCEPT ![calls[c].session_id] = <<>>]
                   ELSE sessions @@ (calls[c].session_id :> <<>>)
    /\ calls' = Goto(c, "read")
    /\ lastOp' = [op |-> "call", call |-> c]
    /\ UNCHANGED <<chatResult, sessionResult, patientVars, assessVars, citeVars, ctxVars, storeVars>>

\* Lines 82-99: history = sessions[session_id] and the prompt built from it.
CallRead(c) ==
    /\ calls[c].pc = "read"
    /\ calls' = IF calls[c].session_id \in DOMAIN sessions
                THEN Goto(c, "generate")
                ELSE Finish(c, Raised("KeyError"))
    /\ lastOp' = [op |-> "call", call |-> c]
    /\ UNCHANGED <<chatVars, patientVars, assessVars, citeVars, ctxVars, storeVars>>

\* Lines 101-115: the model call and its fallback.
CallGenerate(c, mo) ==
    /\ calls[c].pc = "generate"
    /\ calls' = [calls EXCEPT ![c].pc = "append_user", ![c].json = GenerateResponse(mo).json]
    /\ lastOp' = [op |-> "call", call |-> c]
    /\ UNCHANGED <<chatVars, patientVars, assessVars, citeVars, ctxVars, storeVars>>

\* Line 118: sessions[session_id].append(user message)
CallAppendUser(c) ==
    /\ calls[c].pc = "append_user"
    /\ IF calls[c].session_id \in DOMAIN sessions
       THEN /\ sessions' = AppendMsg(sessions, calls[c].session_id, UserMsg(calls[c].message))
            /\ calls' = Goto(c, "append_model")
       ELSE /\ calls' = Finish(c, Raised("KeyError"))
            /\ UNCHANGED sessions
    /\ lastOp' = [op |-> "call", call |-> c]
    /\ UNCHANGED <<chatResult, sessionResult, patientVars, assessVars, citeVars, ctxVars, storeVars>>

\* Lines 119-136: sessions[session_id] is looked up, then
\* response_json.get("answer", "") is appended; the citations are
\* deduplicated and the result returned.
CallAppendModel(c) ==
    /\ calls[c].pc = "append_model"
    /\ LET sid == calls[c].session_id
           answer == GetAnswer(calls[c].json)
           cits == DedupCitations(GetCitations(calls[c].json))
       IN  IF sid \notin DOMAIN sessions
           THEN calls' = Finish(c, Raised("KeyError")) /\ UNCHANGED sessions
           ELSE IF answer.status = "raised"
           THEN calls' = Finish(c, Raised(answer.exc)) /\ UNCHANGED sessions
           ELSE /\ sessions' = AppendMsg(sessions, sid, ModelMsg(answer.value))
                /\ calls' = Finish(c, IF cits.status = "raised" THEN Raised(cits.exc)
                                      ELSE Returned(sid, answer.value, cits.value))
    /\ lastOp' = [op |-> "call", call |-> c]
    /\ UNCHANGED <<chatResult, sessionResult, patientVars, assessVars, citeVars, ctxVars, storeVars>>

\* A call holds the session entry from the test of line 79 until its second
\* append.
HoldsEntry(c, sid) ==
    calls[c].session_id = sid /\ calls[c].pc \in {"read", "generate", "append_user", "append_model"}

\* clear_chat_history(session_id), lines 41-44, run by one caller at a time
\* while chat calls are in flight; each call in flight on the session is
\* marked.
ClearDuringCalls(session_id) ==
    /\ sessions' = RemoveSession(sessions, session_id)
    /\ calls' = [c \in CallIds |->
                    IF HoldsEntry(c, session_id) /\ session_id \in DOMAIN sessions
                    THEN [calls[c] EXCEPT !.cleared = TRUE] ELSE calls[c]]
    /\ lastOp' = [op |-> "clear", session_id |-> session_id,
                  existed |-> session_id \in DOMAIN sessions]
    /\ UNCHANGED <<chatResult, sessionResult, patientVars, assessVars, citeVars, ctxVars, storeVars>>

CallStep(c) ==
    \/ \E sid \in SessionIds, msg \in Messages, retr \in {RetrievalOk, RetrievalRaises("ServiceUnavailable")} :
          CallStart(c, sid, msg, retr)
    \/ CallCreate(c)
    \/ CallRead(c)
    \/ \E mo \in {ModelText(NotJsonText), ModelText(Text(TRUE, JsonObj(TRUE, "a1", FALSE, CitNull)))} :
          CallGenerate(c, mo)
    \/ CallAppendUser(c)
    \/ CallAppendModel(c)

(***************************************************************************)
(* Patient store calls running concurrently.  A call's steps are its       *)
(* accesses to the file and to the cache of _load_patient_data; each file  *)
(* read and each file write is taken as one step.                          *)
(***************************************************************************)
WorkerIds == {"w1", "w2"}

\* existing_data and added_count are the locals of add_new_patients, loaded
\* is the dict a missed _load_patient_data call has read, added_ids the IDs
\* the loop appended, and due the value of counted when the call started.
IdleWorker == [pc |-> "idle", op |-> "", pid |-> 0, existing_data |-> <<>>,
               added_count |-> 0, added_ids |-> {}, loaded |-> <<>>, due |-> {},
               result |-> NoResult]

Busy(w) == workers[w].pc \notin {"idle", "done"}

ListIds(d) == [status |-> "ok", exc |-> "", ids |-> [i \in 1..Len(d) |-> d[i].key]]

\* Lines 17-19 and 24, once _load_patient_data has returned the dict d.
LookupResult(op, d, pid) == IF op = "get" THEN LookupPatient(Loaded(d), pid) ELSE ListIds(d)

\* Lines 28-37: the file is read and the loop run on the local list.
AddRead(w, new_patients) ==
    /\ ~Busy(w)
    /\ LET r == AddLoop(new_patients, file, FileIds(file), 0)
           begun == [IdleWorker EXCEPT !.op = "add", !.due = counted,
                                       !.existing_data = r.data, !.added_count = r.count,
                                       !.added_ids = FileIds(SubSeq(r.data, Len(file) + 1, Len(r.data)))]
       IN  workers' = [workers EXCEPT ![w] =
                          IF r.count > 0
                          THEN [begun EXCEPT !.pc = "add_write"]
                          ELSE [begun EXCEPT !.pc = "done",
                                             !.result = [status |-> "ok", exc |-> "", count |-> 0]]]
    /\ lastOp' = [op |-> "store", worker |-> w]
    /\ UNCHANGED <<counted, chatVars, patientVars, assessVars, citeVars, ctxVars, calls>>

\* Lines 40-41: the local list is written over the file.
AddWrite(w) ==
    /\ workers[w].pc = "add_write"
    /\ file' = workers[w].existing_data
    /\ workers' = [workers EXCEPT ![w].pc = "add_clear"]
    /\ lastOp' = [op |-> "store", worker |-> w]
    /\ UNCHANGED <<counted, cache, patientResult, chatVars, assessVars, citeVars, ctxVars, calls>>

\* Lines 42-44: cache_clear() and the return of added_count.
AddClear(w) ==
    /\ workers[w].pc = "add_clear"
    /\ cache' = NotLoaded
    /\ workers' = [workers EXCEPT ![w].pc = "done",
                                  ![w].result = [status |-> "ok", exc |-> "",
                                                 count |-> workers[w].added_count]]
    /\ counted' = counted \cup workers[w].added_ids
    /\ lastOp' = [op |-> "store", worker |-> w]
    /\ UNCHANGED <<file, patientResult, chatVars, assessVars, citeVars, ctxVars, calls>>

\* Lines 16 and 23: the call of _load_patient_data().  On a cache hit the
\* cached dict is returned and the lookup finishes; on a miss the wrapped
\* function is entered.
LookupStart(w, op, pid) ==
    /\ ~Busy(w)
    /\ LET begun == [IdleWorker EXCEPT !.op = op, !.pid = pid, !.due = counted]
       IN  workers' = [workers EXCEPT ![w] =
                          IF cache.loaded
                          THEN [begun EXCEPT !.pc = "done",
                                             !.result = LookupResult(op, cache.data, pid)]
                          ELSE [begun EXCEPT !.pc = "load_read"]]
    /\ lastOp' = [op |-> "store", worker |-> w]
    /\ UNCHANGED <<counted, chatVars, patientVars, assessVars, citeVars, ctxVars, calls>>

\* Lines 11-12: the file is read into a dict.
LoadRead(w) ==
    /\ workers[w].pc = "load_read"
    /\ workers' = [workers EXCEPT ![w].pc = "load_store", ![w].loaded = ReadPatients(file)]
    /\ lastOp' = [op |-> "store", worker |-> w]
    /\ UNCHANGED <<counted, chatVars, patientVars, assessVars, citeVars, ctxVars, calls>>

\* Line 8: lru_cache stores the dict the function returned unless another
\* call has stored one meanwhile; the lookup then finishes on its own dict.
LoadStore(w) ==
    /\ workers[w].pc = "load_store"
    /\ cache' = IF cache.loaded THEN cache ELSE Loaded(workers[w].loaded)
    /\ workers' = [workers EXCEPT ![w].pc = "done",
                                  ![w].result = LookupResult(workers[w].op, workers[w].loaded,
                                                             workers[w].pid)]
    /\ lastOp' = [op |-> "store", worker |-> w]
    /\ UNCHANGED <<counted, file, patientResult, chatVars, assessVars, citeVars, ctxVars, calls>>

\* The IDs the concurrent scenario adds and looks up, and its batches: one
\* record each.
RaceIds == {2, 3}
RaceBatches == {<<Patient(id, "n1")>> : id \in RaceIds}

WorkerStep(w) ==
    \/ \E batch \in RaceBatches : AddRead(w, batch)
    \/ AddWrite(w)
    \/ AddClear(w)
    \/ \E pid \in RaceIds : LookupStart(w, "get", pid)
    \/ LookupStart(w, "list", 0)
    \/ LoadRead(w)
    \/ LoadStore(w)

(***************************************************************************)
(* Specifications.                                                         *)
(***************************************************************************)
InitChatVars == sessions = <<>> /\ chatResult = NoResult /\ sessionResult = NoHistory
InitPatientVars == file = <<>> /\ cache = NotLoaded /\ patientResult = NoResult
InitAssessVars ==
    /\ memo = <<>>
    /\ assessResult = [status |-> "none", exc |-> "", value |-> JsonNumber]
    /\ httpResult = 0
    /\ upstreamCalls = [retrieval |-> 0, model |-> 0]
    /\ firstResult = <<>>
    /\ lastReturned = <<>>
    /\ othersSince = <<>>
NoCitations == [status |-> "none", exc |-> "", value |-> <<>>]
InitCiteVars == citeIn = <<>> /\ citeOut = NoCitations
NoContext == [status |-> "none", value |-> <<>>]
InitCtxVars == docsIn = <<>> /\ contextOut = NoContext
InitConcVars ==
    /\ calls = [c \in CallIds |-> Idle]
    /\ workers = [w \in WorkerIds |-> IdleWorker]
    /\ counted = {}

\* The chat scenario: an empty session store at process start.
InitChat ==
    /\ InitChatVars /\ InitPatientVars /\ InitAssessVars /\ InitCiteVars
    /\ InitCtxVars /\ InitConcVars
    /\ lastOp = NoOp

NextChat ==
    \/ \E sid \in SessionIds, msg \in Messages, retr \in RetrievalOutcomes,
          mo \in ChatModelOutcomes : ChatWithGuidelines(sid, msg, retr, mo)
    \/ \E sid \in SessionIds : ClearChatHistory(sid)

SpecChat == InitChat /\ [][NextChat]_vars

\* The patient scenario: the file holds one patient and nothing is cached.
InitPatients ==
    /\ InitChatVars /\ InitAssessVars /\ InitCiteVars
    /\ file = <<Patient(1, "n1")>>
    /\ cache = NotLoaded
    /\ patientResult = NoResult
    /\ InitCtxVars /\ InitConcVars
    /\ lastOp = NoOp

NextPatients ==
    \/ \E batch \in Batches : AddNewPatients(batch)
    \/ \E pid \in LookupIds : GetPatientById(pid)
    \/ GetAllPatientIds

SpecPatients == InitPatients /\ [][NextPatients]_vars

\* The assessment scenario: NumSmall patients on file, and requests for
\* them and for one ID that is not on file.
InitAssess ==
    /\ InitChatVars /\ InitAssessVars /\ InitCiteVars
    /\ file = StoredPatients(NumSmall)
    /\ cache = NotLoaded
    /\ patientResult = NoResult
    /\ InitCtxVars /\ InitConcVars
    /\ lastOp = NoOp

NextAssess ==
    \E id \in 1..(NumSmall + 1), retr \in RetrievalOutcomes, mo \in AssessModelOutcomes :
        Assess(id, retr, mo)

SpecAssess == InitAssess /\ [][NextAssess]_vars

\* The memo scenario: MaxPatients patients on file.  Patient 1 is assessed
\* at any time, with upstream outcomes that fail or return; the other patients are assessed
\* one after the other in increasing ID order, each once and successfully.
ProbeIds == {1}
NextFresh == Max(MemoKeys(memo) \cup ProbeIds) + 1
MemoProbeOutcomes ==
    {AssessModelNoText}
    \cup {AssessModelText(AssessText("json", TRUE, v)) : v \in {Urgent, Routine}}

InitMemo ==
    /\ InitChatVars /\ InitAssessVars /\ InitCiteVars
    /\ file = StoredPatients(MaxPatients)
    /\ cache = NotLoaded
    /\ patientResult = NoResult
    /\ InitCtxVars /\ InitConcVars
    /\ lastOp = NoOp

NextMemo ==
    \/ \E retr \in {RetrievalOk, RetrievalRaises("ServiceUnavailable")},
          mo \in MemoProbeOutcomes, id \in ProbeIds : Assess(id, retr, mo)
    \/ /\ NextFresh <= MaxPatients
       /\ Assess(NextFresh, RetrievalOk, AssessModelText(AssessText("json", TRUE, Urgent)))

SpecMemo == InitMemo /\ [][NextMemo]_vars

\* The deduplication scenario: the model's citation list is any list of
\* CiteLists, and the deduplication is applied to it.
InitCite ==
    /\ InitChatVars /\ InitPatientVars /\ InitAssessVars
    /\ citeIn \in CiteLists
    /\ citeOut = NoCitations
    /\ InitCtxVars /\ InitConcVars
    /\ lastOp = NoOp

NextCite == DeduplicateCitations

SpecCite == InitCite /\ [][NextCite]_vars

\* The context scenario: retrieval returns any chunk sequence of DocLists,
\* and the context block is composed from it.
InitContext ==
    /\ InitChatVars /\ InitPatientVars /\ InitAssessVars /\ InitCiteVars
    /\ InitConcVars
    /\ docsIn \in DocLists
    /\ contextOut = NoContext
    /\ lastOp = NoOp

NextContext == BuildContext

SpecContext == InitContext /\ [][NextContext]_vars

\* The session scenario: chat calls that return, and reads and deletions of
\* the histories they build.
SessionModelOutcomes ==
    {ModelText(NotJsonText), ModelText(Text(TRUE, JsonObj(TRUE, "a1", FALSE, CitNull)))}

NextSession ==
    \/ \E sid \in SessionIds, msg \in Messages, mo \in SessionModelOutcomes :
          ChatWithGuidelines(sid, msg, RetrievalOk, mo)
    \/ \E sid \in SessionIds : ClearChatHistory(sid)
    \/ \E sid \in SessionIds : GetChatHistory(sid)

SpecSession == InitChat /\ [][NextSession]_vars

\* The race scenario: two chat calls interleave; nothing deletes a session.
NextRace == \E c \in CallIds : CallStep(c)

SpecRace == InitChat /\ [][NextRace]_vars

\* The deletion scenario: chat calls interleave with clear_chat_history.
NextClearRace ==
    \/ \E c \in CallIds : CallStep(c)
    \/ \E sid \in SessionIds : ClearDuringCalls(sid)

SpecClearRace == InitChat /\ [][NextClearRace]_vars

\* The store race scenario: adds and lookups interleave on a file holding
\* patient 1.
NextStoreRace == \E w \in WorkerIds : WorkerStep(w)

SpecStoreRace == InitPatients /\ [][NextStoreRace]_vars

(***************************************************************************)
(* Properties.                                                             *)
(***************************************************************************)
ChatCalled == lastOp.op = "chat"
AssessCalled == lastOp.op = "assess"
ModelOutputInvalid(mo) ==
    mo.kind \in {"raise", "no_text"} \/ (mo.kind = "text" /\ ~mo.text.wellformed)

\* C1: whatever the model call does (raises, returns text that is not JSON,
\* returns any valid JSON), a chat call whose retrieval succeeded raises
\* nothing and returns a result for its session.
C1_ChatNeverRaises ==
    (ChatCalled /\ lastOp.retrieval.kind = "ok")
        => (chatResult.status = "ok" /\ chatResult.session_id = lastOp.session_id)

\* C2: a chat call whose retrieval raises still returns, with the fixed
\* fallback answer.
C2_RetrievalFailureRecovered ==
    (ChatCalled /\ lastOp.retrieval.kind = "raise")
        => (chatResult.status = "ok"
            /\ chatResult.answer = "I encountered an error processing your request. Please try again.")

NoUpstreamCalls == [retrieval |-> 0, model |-> 0]

\* C3 as stated: once assess_patient(id) has returned, every later
\* assess_patient(id) returns that first result and calls neither retrieval
\* nor the model, however many other IDs were assessed in between.
C3_MemoizedForever ==
    [][(lastOp'.op = "assess" /\ lastOp'.patient_id \in DOMAIN firstResult)
        => (/\ assessResult'.status = "ok"
            /\ assessResult'.value = firstResult[lastOp'.patient_id]
            /\ upstreamCalls' = NoUpstreamCalls)]_vars

\* C3 as amended: once assess_patient(id) has returned, a later
\* assess_patient(id) returns the result of the latest call for id and calls
\* neither retrieval nor the model, as long as fewer than 32 other distinct
\* IDs have returned a result since that latest call.
C3_MemoizedWhileRecent ==
    [][(/\ lastOp'.op = "assess"
        /\ lastOp'.patient_id \in DOMAIN lastReturned
        /\ Cardinality(othersSince[lastOp'.patient_id]) < 32)
        => (/\ assessResult'.status = "ok"
            /\ assessResult'.value = lastReturned[lastOp'.patient_id]
            /\ upstreamCalls' = NoUpstreamCalls)]_vars

\* A hit on patient 1 with the memo full: 31 other patients are memoised
\* beside it.
C3_Witness ==
    /\ AssessCalled /\ lastOp.patient_id = 1
    /\ upstreamCalls = NoUpstreamCalls
    /\ assessResult.status = "ok"
    /\ Len(memo) = 32
    /\ \E j \in DOMAIN othersSince : Cardinality(othersSince[j]) >= 32

\* C4: no two records of the patient file share a patient_id.
C4_UniqueIds ==
    \A i, j \in 1..Len(file) : i # j => file[i].patient_id # file[j].patient_id

\* C5: add_new_patients returns the number of submitted records whose
\* patient_id was not in the file before the call, and when that number is 0
\* the file and the cached view are unchanged.
C5_AddedCount ==
    [][lastOp'.op = "add"
        => LET batch == lastOp'.batch
               before == {file[i].patient_id : i \in 1..Len(file)}
               fresh == {i \in 1..Len(batch) :
                            batch[i].has_id /\ batch[i].patient_id \notin before}
           IN  /\ patientResult'.status = "ok"
               /\ patientResult'.count = Cardinality(fresh)
               /\ (fresh = {} => (file' = file /\ cache' = cache))]_vars

\* A batch of patient 1, which is on file from the start, and one new
\* patient was added and reported 1.
C5_Witness ==
    /\ lastOp.op = "add"
    /\ Len(lastOp.batch) = 2
    /\ lastOp.batch[1].has_id /\ lastOp.batch[1].patient_id = 1
    /\ lastOp.batch[2].has_id /\ lastOp.batch[2].patient_id # 1
    /\ patientResult.count = 1
    /\ Len(file) = 2

\* C6: a chat call that returns leaves its session's history as it was
\* (empty when the session was absent) followed by the user message and then
\* the assistant message.
C6_TurnAppended ==
    [][(lastOp'.op = "chat" /\ chatResult'.status = "ok")
        => LET sid == lastOp'.session_id
               prior == IF sid \in DOMAIN sessions THEN sessions[sid] ELSE <<>>
           IN  /\ sid \in DOMAIN sessions'
               /\ Len(sessions'[sid]) = Len(prior) + 2
               /\ sessions'[sid] =
                     prior \o << [role |-> "user", content |-> lastOp'.message],
                                 [role |-> "model", content |-> chatResult'.answer] >>]_vars

\* A returned chat call on a session that already held a turn.
C6_Witness ==
    /\ ChatCalled /\ chatResult.status = "ok"
    /\ lastOp.session_id \in DOMAIN sessions
    /\ Len(sessions[lastOp.session_id]) = 4

\* C7: when the model call raises or its output is not valid JSON, the chat
\* call returns the fixed fallback answer and no citations.
C7_FallbackOnModelFailure ==
    (ChatCalled /\ lastOp.retrieval.kind = "ok" /\ ModelOutputInvalid(lastOp.model))
        => (/\ chatResult.status = "ok"
            /\ chatResult.answer = "I encountered an error processing your request. Please try again."
            /\ chatResult.citations = <<>>)

\* The model call raised and the chat call returned.
C7_Witness ==
    /\ ChatCalled /\ lastOp.retrieval.kind = "ok"
    /\ lastOp.model.kind = "raise"
    /\ chatResult.status = "ok"

\* C8: GET /assess/{id} answers 404 exactly when the ID is not on file, and a
\* failure of retrieval or of the model for a patient on file answers 500.
C8_NotFoundIffAbsent ==
    AssessCalled
        => LET onFile == lastOp.patient_id \in {file[i].patient_id : i \in 1..Len(file)}
           IN  /\ (httpResult = 404) <=> ~onFile
               /\ (onFile /\ assessResult.status = "raised") => httpResult = 500

\* C9: when the model call returned and its output is refused or
\* unparsable, assess_patient returns the fixed "Unable to assess" result.
C9_UnableToAssess ==
    (/\ AssessCalled
     /\ upstreamCalls.model = 1
     /\ lastOp.model.kind # "raise"
     /\ ModelOutputInvalid(lastOp.model))
        => (/\ assessResult.status = "ok"
            /\ assessResult.value.recommendation = "Unable to assess"
            /\ assessResult.value.next_steps = "Please review the patient data manually.")

\* The model returned text that is not JSON and assess_patient returned.
C9_Witness ==
    /\ AssessCalled
    /\ upstreamCalls.model = 1
    /\ lastOp.model.kind = "text" /\ ~lastOp.model.text.wellformed
    /\ assessResult.status = "ok"

\* The positions of citeIn that hold the first entry of their (page, excerpt).
FirstOfPair ==
    {i \in 1..Len(citeIn) :
        \A j \in 1..(i - 1) :
            <<citeIn[j].page, citeIn[j].excerpt>> # <<citeIn[i].page, citeIn[i].excerpt>>}

\* C10: the citation list returned holds no two entries with the same
\* (page, excerpt), and it is the first entry of each pair, in the order of
\* the model's list.
C10_CitationsDeduplicated ==
    citeOut.status # "none"
        => LET out == citeOut.value
           IN  /\ citeOut.status = "ok"
               /\ \A a, b \in 1..Len(out) :
                     a # b => <<out[a].page, out[a].excerpt>> # <<out[b].page, out[b].excerpt>>
               /\ Len(out) = Cardinality(FirstOfPair)
               /\ \A k \in 1..Len(out) :
                     \E i \in FirstOfPair :
                        /\ Cardinality({j \in FirstOfPair : j <= i}) = k
                        /\ out[k] = citeIn[i]

\* A list of three entries whose first and last share a pair kept two.
C10_Witness ==
    /\ citeOut.status = "ok"
    /\ Len(citeIn) = 3
    /\ <<citeIn[1].page, citeIn[1].excerpt>> = <<citeIn[3].page, citeIn[3].excerpt>>
    /\ citeIn[1].chunk_id # citeIn[3].chunk_id
    /\ Len(citeOut.value) = 2

\* The positions of docsIn that hold the first chunk with their text.
FirstOfText ==
    {i \in 1..Len(docsIn) :
        \A j \in 1..(i - 1) : docsIn[j].page_content # docsIn[i].page_content}

\* C11: the composed context holds each distinct chunk text exactly once, in
\* the order of first occurrence in the retrieval result, and its chunk IDs
\* are 1..n in that order.
C11_ContextDeduplicated ==
    contextOut.status = "ok"
        => LET out == contextOut.value
           IN  /\ Len(out) = Cardinality({docsIn[i].page_content : i \in 1..Len(docsIn)})
               /\ \A a, b \in 1..Len(out) : a # b => out[a].content # out[b].content
               /\ \A k \in 1..Len(out) :
                     /\ out[k].chunk_id = k
                     /\ \E i \in FirstOfText :
                           /\ Cardinality({j \in FirstOfText : j <= i}) = k
                           /\ out[k].content = docsIn[i].page_content

\* Three chunks, the last repeating the first after a different one, gave
\* two blocks.
C11_Witness ==
    /\ contextOut.status = "ok"
    /\ Len(docsIn) = 3
    /\ docsIn[1].page_content = docsIn[3].page_content
    /\ docsIn[1].page_content # docsIn[2].page_content
    /\ Len(contextOut.value) = 2

\* C12: clear_chat_history(s) raises nothing and leaves s absent and every
\* other session as it was, whether or not s existed; get_chat_history(s) on
\* an absent session returns the empty sequence and creates nothing.
C12_ClearAndGet ==
    [][/\ lastOp'.op = "clear"
          => LET sid == lastOp'.session_id
             IN  /\ sessionResult'.status = "ok"
                 /\ sid \notin DOMAIN sessions'
                 /\ DOMAIN sessions' = DOMAIN sessions \ {sid}
                 /\ \A s \in DOMAIN sessions' : sessions'[s] = sessions[s]
       /\ (lastOp'.op = "get" /\ lastOp'.session_id \notin DOMAIN sessions)
          => /\ sessionResult'.status = "ok"
             /\ sessionResult'.history = <<>>
             /\ sessions' = sessions]_vars

\* clear_chat_history ran on an absent session while another session held a
\* history.
C12_Witness ==
    /\ lastOp.op = "clear"
    /\ ~lastOp.existed
    /\ sessionResult.status = "ok"
    /\ \E s \in DOMAIN sessions : Len(sessions[s]) = 2

\* No call is between its two appends on session s.
Settled(s) == \A c \in CallIds : ~(calls[c].session_id = s /\ calls[c].pc = "append_model")

\* C13: each session's history has even length and alternates user message,
\* assistant message, also when calls on the same session interleave.  The
\* claim says it of every state; it is stated here of the states where no
\* call stands between its two appends on the session.
C13_HistoryAlternates ==
    \A s \in DOMAIN sessions :
        Settled(s)
            => /\ Len(sessions[s]) % 2 = 0
               /\ \A i \in 1..Len(sessions[s]) :
                     sessions[s][i].role = IF i % 2 = 1 THEN "user" ELSE "model"

\* C14: a chat call on session s during which clear_chat_history(s) ran,
\* after the call created or read the session entry and before it appended
\* its turn, raises nothing and returns its answer.
C14_ClearedCallReturns ==
    \A c \in CallIds :
        (calls[c].pc = "done" /\ calls[c].cleared)
            => (calls[c].result.status = "ok"
                /\ calls[c].result.session_id = calls[c].session_id)

\* The IDs a finished lookup found.
FoundIds(w) ==
    IF workers[w].op = "get"
    THEN IF workers[w].result.status = "ok" THEN {workers[w].pid} ELSE {}
    ELSE {workers[w].result.ids[i] : i \in 1..Len(workers[w].result.ids)}

\* C15: every patient an add_new_patients call counted as added is found by
\* every get_patient_by_id and get_all_patient_ids call that starts after
\* the add returned, also when adds and lookups run concurrently.
C15_AddedStaysVisible ==
    \A w \in WorkerIds :
        (workers[w].pc = "done" /\ workers[w].op \in {"get", "list"})
            => \A id \in workers[w].due :
                  (workers[w].op = "list" \/ workers[w].pid = id) => id \in FoundIds(w)

====
